---- MODULE Spec2Model ----
(***************************************************************************)
(* Transport of the Monk OS SDK (src/src/transport.ts): the connection     *)
(* lifecycle, the routing table of pending requests, batch (send) and      *)
(* streaming (stream) exchanges, and the socket callbacks.                 *)
(*                                                                         *)
(* One step of the model is one run-to-completion task of the JavaScript   *)
(* event loop: a public call, a timer callback or a socket callback,       *)
(* together with the promise continuations (microtasks) it makes runnable, *)
(* which the runtime runs before the next task.                            *)
(***************************************************************************)
EXTENDS Integers, Sequences, FiniteSets, TLC

\* Bounds of the model.
MaxCalls == 3    \* calls that start something: accepted connects, sends, streams
MaxMsgs  == 1    \* messages the remote sends for the ids of exchanges
WideMsgs == 2    \* the same, in the wider specification
DeepCalls == 4   \* calls, in the specification of streams on an open connection
DeepMsgs == 3    \* messages, in the specification of streams on an open connection
MaxBytes == 4    \* bytes a socket receives, in the specification of the framing
TagCalls == 2    \* calls, in the specification of the tags (the connect call is one)
TagMsgs == 2     \* messages, in the specification of the tags
ReCalls == 2     \* calls, in the specification of reconnection
ReBytes == 2     \* bytes all sockets receive, in the specification of reconnection
CliCalls == 2    \* calls, in the specification of the client (the connect call is one)
CliMsgs == 2     \* messages, in the specification of the client
DupCalls == 2    \* sends, in the specification of caller-chosen ids

VARIABLES
    state,       \* Transport.state
    socket,      \* Transport.socket: 0 (undefined) or the attempt whose socket it is
    pending,     \* Transport.pending: the Map's entries in insertion order
    nextId,      \* Transport.nextId
    onResponse,  \* Transport.onResponse: 0 (the method) or the stream whose wrapper it is
    conn,        \* the connect calls accepted so far, with their attempt's socket
    ex,          \* the send / stream calls that registered a waiter, with their closures
    wire,        \* what was written, in order: the text of a request or a newline,
                 \* each with the socket it was written to
    issued,      \* the ids generateId has returned, in order
    thrown       \* the call the last task refused at its state check, if it did

vars == <<state, socket, pending, nextId, onResponse, conn, ex, wire, issued, thrown>>

\* ---------------------------------------------------------------- messages

\* The tags the remote uses in this model: a non-terminal and a terminal one.
RemoteOps == {"item", "done"}

\* The tags of the replies to a single-value call: success, failure, or the first
\* item of a streaming operation.
ReplyOps == {"ok", "error", "item"}

\* The code an error-tagged message carries; the other messages carry none.
RemoteCode(op) == IF op = "error" THEN "ENOENT" ELSE ""

\* Every tag a response can carry.
ResponseOps == {"ok", "error", "item", "data", "event", "progress", "done", "redirect"}

\* Mutant: redirect does not end an exchange.
isTerminalNoRedirect(response) == response.op \in {"ok", "error", "done"}

isTerminal(response) == response.op \in {"ok", "error", "done", "redirect"}

\* String(n) of generateId: the decimal string of n.
String(n) == ToString(n)

\* The id of a message no call ever issued.
StrayId == "0"

\* ---------------------------------------------------------------- the Map

\* An entry of the Map is [id |-> the key, x |-> the exchange whose waiter it is].
MapHas(map, id) == \E i \in 1..Len(map) : map[i].id = id

\* Map.get(id): the exchange registered under id, 0 when there is none.
MapGet(map, id) ==
    IF MapHas(map, id)
    THEN map[CHOOSE i \in 1..Len(map) : map[i].id = id].x
    ELSE 0

\* Map.set(id, x): a new key is appended, an existing key keeps its place.
MapSet(map, id, x) ==
    IF MapHas(map, id)
    THEN [map EXCEPT ![CHOOSE i \in 1..Len(map) : map[i].id = id] = [id |-> id, x |-> x]]
    ELSE Append(map, [id |-> id, x |-> x])

\* Map.delete(id)
MapDelete(map, id) == SelectSeq(map, LAMBDA e : e.id # id)

\* ---------------------------------------------------------------- records

\* clearTimeout(timer): an armed timer is cancelled, any other is left as it is.
clearTimeout(timer) == IF timer = "armed" THEN "cleared" ELSE timer

\* A connect call that passed the state check: the promise of connectWithTimeout,
\* its timer, and the socket of its Bun.connect attempt.
\* Mutant: the buffer is the Transport's, and a new socket goes on with what the
\* last one left.
NewAttemptSharedBuffer ==
    [sock |-> "connecting", timer |-> "armed", promise |-> "pending",
     buffer |-> IF conn = <<>> THEN <<>> ELSE conn[Len(conn)].buffer,
     received |-> <<>>]

\* buffer is socket.data.buffer, the text not yet cut into lines; received is the
\* bytes the data callback of the socket was handed so far (history).
NewAttempt ==
    [sock |-> "connecting", timer |-> "armed", promise |-> "pending",
     buffer |-> <<>>, received |-> <<>>]

\* The closure of one send or stream call.
\*   send:   timer, promise (the future send returns), settles (calls of its
\*           resolve / reject), responses (PendingRequest.responses)
\*   stream: queue, resolver (set or null), error, done, orig (originalOnResponse),
\*           promise (where the consumer stands), out (the messages yielded)
\*   got:    the messages the remote sent for this id since the call (history)
\* Mutant: a send arms no timer.
NewSendNoTimer(id) ==
    [kind |-> "send", id |-> id, timer |-> "none", promise |-> "pending",
     settles |-> 0, responses |-> <<>>, queue |-> <<>>, resolver |-> FALSE,
     error |-> "none", done |-> FALSE, orig |-> 0, out |-> <<>>, got |-> <<>>]

NewSend(id) ==
    [kind |-> "send", id |-> id, timer |-> "armed", promise |-> "pending",
     settles |-> 0, responses |-> <<>>, queue |-> <<>>, resolver |-> FALSE,
     error |-> "none", done |-> FALSE, orig |-> 0, out |-> <<>>, got |-> <<>>]

\* Mutant: a stream arms a timer as a send does.
NewStreamWithTimer(id, h) ==
    [kind |-> "stream", id |-> id, timer |-> "armed", promise |-> "suspended",
     settles |-> 0, responses |-> <<>>, queue |-> <<>>, resolver |-> TRUE,
     error |-> "none", done |-> FALSE, orig |-> h, out |-> <<>>, got |-> <<>>]

NewStream(id, h) ==
    [kind |-> "stream", id |-> id, timer |-> "none", promise |-> "suspended",
     settles |-> 0, responses |-> <<>>, queue |-> <<>>, resolver |-> TRUE,
     error |-> "none", done |-> FALSE, orig |-> h, out |-> <<>>, got |-> <<>>]

\* A stream whose generator has finished: it ended, threw, or was returned.
Finished(e) == e.kind = "stream" /\ e.promise \notin {"suspended", "yielded"}

Refused(op, err) == [op |-> op, err |-> err]
NotRefused == Refused("none", "none")

\* The calls a bound still allows to start something.
Budget(calls) == Len(conn) + Len(issued) < calls

Init ==
    /\ state = "disconnected"
    /\ socket = 0
    /\ pending = <<>>
    /\ nextId = 1
    /\ onResponse = 0
    /\ conn = <<>>
    /\ ex = <<>>
    /\ wire = <<>>
    /\ issued = <<>>
    /\ thrown = NotRefused

\* ---------------------------------------------------------------- connect

\* Mutant: the check lets a call through while another is connecting.
ConnectAllowedWhileConnecting == state # "connected"

\* The state check of connect().
ConnectAllowed == state = "disconnected"

\* Mutant: the catch block does not put the state back.
ConnectContinuationNoReset(st, wasPending, outcome) ==
    IF wasPending /\ outcome = "resolved" THEN "connected" ELSE st

\* The continuation of connect() after `await connectWithTimeout`: it runs only
\* when this settle is the one that settles the promise (a later resolve or reject
\* of a settled promise does nothing).
ConnectContinuation(st, wasPending, outcome) ==
    IF ~wasPending THEN st
    ELSE IF outcome = "resolved" THEN "connected" ELSE "disconnected"

\* resolve() / reject() of the promise of attempt a.
SettleConnect(c, a, outcome) ==
    IF c[a].promise = "pending" THEN [c EXCEPT ![a].promise = outcome] ELSE c

\* connect(options)
ConnectCall ==
    IF ~ConnectAllowed
    THEN /\ thrown' = Refused("connect", "EISCONN")
         /\ UNCHANGED <<state, socket, pending, nextId, onResponse, conn, ex, wire, issued>>
    ELSE /\ state' = "connecting"
         /\ conn' = Append(conn, NewAttempt)
         /\ thrown' = NotRefused
         /\ UNCHANGED <<socket, pending, nextId, onResponse, ex, wire, issued>>

\* The setTimeout callback of connectWithTimeout.
ConnectTimer(a) ==
    /\ conn[a].timer = "armed"
    /\ conn' = SettleConnect([conn EXCEPT ![a].timer = "fired"], a, "TimeoutError")
    /\ state' = ConnectContinuation(state, conn[a].promise = "pending", "TimeoutError")
    /\ thrown' = NotRefused
    /\ UNCHANGED <<socket, pending, nextId, onResponse, ex, wire, issued>>

\* The open callback of the attempt's socket.
SocketOpen(a) ==
    /\ conn[a].sock = "connecting"
    /\ conn' = SettleConnect([conn EXCEPT ![a].sock = "open",
                                          ![a].timer = clearTimeout(@)], a, "resolved")
    /\ socket' = a
    /\ state' = ConnectContinuation(state, conn[a].promise = "pending", "resolved")
    /\ thrown' = NotRefused
    /\ UNCHANGED <<pending, nextId, onResponse, ex, wire, issued>>

\* The connectError callback, or the rejection of Bun.connect's promise.
SocketConnectError(a) ==
    /\ conn[a].sock = "connecting"
    /\ conn' = SettleConnect([conn EXCEPT ![a].sock = "failed",
                                          ![a].timer = clearTimeout(@)], a, "ECONNREFUSED")
    /\ state' = ConnectContinuation(state, conn[a].promise = "pending", "ECONNREFUSED")
    /\ thrown' = NotRefused
    /\ UNCHANGED <<socket, pending, nextId, onResponse, ex, wire, issued>>

\* The error callback of a socket that has opened: clearTimeout and reject act on
\* a timer and a promise that are already settled.
SocketError(a) ==
    /\ conn[a].sock = "open"
    /\ conn' = SettleConnect([conn EXCEPT ![a].timer = clearTimeout(@)], a, "ECONNREFUSED")
    /\ state' = ConnectContinuation(state, conn[a].promise = "pending", "ECONNREFUSED")
    /\ thrown' = NotRefused
    /\ UNCHANGED <<socket, pending, nextId, onResponse, ex, wire, issued>>

\* ---------------------------------------------------------------- teardown

\* resolve() / reject() of the future of send x: the first call settles it.
SettleSend(e, x, outcome) ==
    [e EXCEPT ![x].promise = IF @ = "pending" THEN outcome ELSE @,
              ![x].settles = @ + 1]

\* The finally block of stream x: the dispatch function is restored to the one
\* the stream found, and the entry under its id is deleted.
FinallyHandler(e, x, h) == e[x].orig
FinallyPending(e, x, map) == MapDelete(map, e[x].id)

\* pending.reject(err) for the waiter x of an entry.
\*   send:   the future's reject.
\*   stream: errorHandler; a suspended consumer is resumed with done, leaves the
\*           loop, throws the error and runs the finally block.
RejectWaiter(r, x, err) ==
    IF r.ex[x].kind = "send"
    THEN [r EXCEPT !.ex = SettleSend(r.ex, x, err)]
    ELSE IF r.ex[x].resolver
    THEN [r EXCEPT !.ex = [r.ex EXCEPT ![x].error = err, ![x].resolver = FALSE,
                                       ![x].promise = err],
                   !.onResponse = FinallyHandler(r.ex, x, r.onResponse)]
    ELSE [r EXCEPT !.ex = [r.ex EXCEPT ![x].error = err]]

\* Mutant: the loop rejects the waiter and leaves its entry in the Map.
RejectEntryNoDelete(r, entry) ==
    RejectWaiter([r EXCEPT !.ex = [r.ex EXCEPT ![entry.x].timer = clearTimeout(@)]],
                 entry.x, "ECONNRESET")

\* Mutant: the loop does not cancel the waiter's timer.
RejectEntryKeepTimer(r, entry) ==
    LET rejected == RejectWaiter(r, entry.x, "ECONNRESET")
    IN  [rejected EXCEPT !.pending = MapDelete(rejected.pending, entry.id)]

\* One round of the loop of close() / onClose(): the entry's timer is cancelled,
\* its waiter rejected, the entry deleted.
RejectEntry(r, entry) ==
    LET cleared == [r EXCEPT !.ex = [r.ex EXCEPT ![entry.x].timer = clearTimeout(@)]]
        rejected == RejectWaiter(cleared, entry.x, "ECONNRESET")
    IN  [rejected EXCEPT !.pending = MapDelete(rejected.pending, entry.id)]

\* `for (const [id, pending] of this.pending)`: the entries in insertion order.
RECURSIVE RejectAll(_, _)
RejectAll(r, entries) ==
    IF entries = <<>> THEN r
    ELSE RejectAll(RejectEntry(r, Head(entries)), Tail(entries))

Flush == RejectAll([ex |-> ex, onResponse |-> onResponse, pending |-> pending], pending)

\* close()
Close ==
    /\ conn' = IF socket # 0 THEN [conn EXCEPT ![socket].sock = "ending"] ELSE conn
    /\ socket' = 0
    /\ state' = "disconnected"
    /\ ex' = Flush.ex
    /\ onResponse' = Flush.onResponse
    /\ pending' = Flush.pending
    /\ thrown' = NotRefused
    /\ UNCHANGED <<nextId, wire, issued>>

\* The close callback of socket a: onClose().
OnClose(a) ==
    /\ conn[a].sock \in {"open", "ending"}
    /\ conn' = [conn EXCEPT ![a].sock = "closed"]
    /\ socket' = 0
    /\ state' = "disconnected"
    /\ ex' = Flush.ex
    /\ onResponse' = Flush.onResponse
    /\ pending' = Flush.pending
    /\ thrown' = NotRefused
    /\ UNCHANGED <<nextId, wire, issued>>

\* ---------------------------------------------------------------- send

\* Mutant: the counter is read and not advanced.
generateIdNoIncrement == nextId

\* generateId(): String(this.nextId++)
generateId == String(nextId)
generateIdNext == nextId + 1

\* Mutant: the check looks at the socket only.
ConnectedSocketOnly == socket # 0

\* The check of send() and of the first pull of stream().
Connected == socket # 0 /\ state = "connected"

\* Mutant: the request is written without the newline.
WriteNoNewline(id) == Append(wire, [sock |-> socket, id |-> id, part |-> "json"])

\* socket.write(encode(JSON.stringify(request) + '\n')): the text of the request and
\* the newline reach the stored socket in one write.
Write(id) ==
    wire \o <<[sock |-> socket, id |-> id, part |-> "json"],
              [sock |-> socket, id |-> id, part |-> "newline"]>>

\* Mutant: the catch block rejects and leaves the timer armed.
WriteFailedKeepTimer(e, x) == SettleSend(e, x, "EIO")

\* The catch block of send x around socket.write: the timer is cancelled and the
\* future rejected (the entry is deleted by the caller of this operator).
WriteFailed(e, x) == SettleSend([e EXCEPT ![x].timer = clearTimeout(@)], x, "EIO")

\* OSClient.call: an id from generateId(), then send({id, call, args}).  The write
\* succeeds or throws.
Send(writeOk) ==
    LET id == generateId
        x  == Len(ex) + 1
    IN  /\ nextId' = generateIdNext
        /\ issued' = Append(issued, id)
        /\ IF ~Connected
           THEN /\ thrown' = Refused("send", "ENOTCONN")
                /\ UNCHANGED <<state, socket, pending, onResponse, conn, ex, wire>>
           ELSE IF writeOk
           THEN /\ ex' = Append(ex, NewSend(id))
                /\ pending' = MapSet(pending, id, x)
                /\ wire' = Write(id)
                /\ thrown' = NotRefused
                /\ UNCHANGED <<state, socket, onResponse, conn>>
           ELSE /\ ex' = WriteFailed(Append(ex, NewSend(id)), x)
                /\ pending' = MapDelete(MapSet(pending, id, x), id)
                /\ thrown' = NotRefused
                /\ UNCHANGED <<state, socket, onResponse, conn, wire>>

\* Transport.send called directly (the class is exported for advanced use) with a
\* request whose id the caller chose.
TransportSend(id, writeOk) ==
    LET x == Len(ex) + 1
    IN  /\ IF ~Connected
           THEN /\ thrown' = Refused("send", "ENOTCONN")
                /\ UNCHANGED <<pending, ex, wire>>
           ELSE IF writeOk
           THEN /\ ex' = Append(ex, NewSend(id))
                /\ pending' = MapSet(pending, id, x)
                /\ wire' = Write(id)
                /\ thrown' = NotRefused
           ELSE /\ ex' = WriteFailed(Append(ex, NewSend(id)), x)
                /\ pending' = MapDelete(MapSet(pending, id, x), id)
                /\ thrown' = NotRefused
                /\ UNCHANGED wire
        /\ UNCHANGED <<state, socket, nextId, onResponse, conn, issued>>

\* Mutant: the timer callback rejects and leaves the entry in the Map.
SendTimerNoDelete(x) ==
    /\ ex[x].kind = "send"
    /\ ex[x].timer = "armed"
    /\ ex' = SettleSend([ex EXCEPT ![x].timer = "fired"], x, "TimeoutError")
    /\ thrown' = NotRefused
    /\ UNCHANGED <<state, socket, pending, nextId, onResponse, conn, wire, issued>>

\* Mutant: the timer callback empties the Map.
SendTimerDropsAll(x) ==
    /\ ex[x].kind = "send"
    /\ ex[x].timer = "armed"
    /\ pending' = <<>>
    /\ ex' = SettleSend([ex EXCEPT ![x].timer = "fired"], x, "TimeoutError")
    /\ thrown' = NotRefused
    /\ UNCHANGED <<state, socket, nextId, onResponse, conn, wire, issued>>

\* The setTimeout callback of send x.
SendTimer(x) ==
    /\ ex[x].kind = "send"
    /\ ex[x].timer = "armed"
    /\ pending' = MapDelete(pending, ex[x].id)
    /\ ex' = SettleSend([ex EXCEPT ![x].timer = "fired"], x, "TimeoutError")
    /\ thrown' = NotRefused
    /\ UNCHANGED <<state, socket, nextId, onResponse, conn, wire, issued>>

\* ---------------------------------------------------------------- stream

\* OSClient.iterate / stream: an id from generateId(), then the first pull of
\* transport.stream({id, call, args}): the check, the registration, the write and
\* the first turn of the loop, which suspends on an empty queue.
Stream(writeOk) ==
    LET id == generateId
        x  == Len(ex) + 1
    IN  /\ nextId' = generateIdNext
        /\ issued' = Append(issued, id)
        /\ IF ~Connected
           THEN /\ thrown' = Refused("stream", "ENOTCONN")
                /\ UNCHANGED <<state, socket, pending, onResponse, conn, ex, wire>>
           ELSE IF writeOk
           THEN /\ ex' = Append(ex, NewStream(id, onResponse))
                /\ pending' = MapSet(pending, id, x)
                /\ onResponse' = x
                /\ wire' = Write(id)
                /\ thrown' = NotRefused
                /\ UNCHANGED <<state, socket, conn>>
           ELSE LET e == Append(ex, [NewStream(id, onResponse) EXCEPT
                                        !.resolver = FALSE, !.promise = "WriteError"])
                IN  /\ ex' = e
                    /\ pending' = FinallyPending(e, x, MapSet(pending, id, x))
                    /\ onResponse' = FinallyHandler(e, x, x)
                    /\ thrown' = NotRefused
                    /\ UNCHANGED <<state, socket, conn, wire>>

\* The consumer of stream x pulls again after a yield: the generator goes on from
\* the yield to the next yield, to the await on an empty queue, or to its end.
Pull(x) ==
    /\ ex[x].kind = "stream"
    /\ ex[x].promise = "yielded"
    /\ LET e == ex[x]
           leave == isTerminal(e.out[Len(e.out)]) \/ e.done \/ e.error # "none"
       IN  IF leave
           THEN /\ ex' = [ex EXCEPT ![x].promise =
                              IF e.error # "none" THEN e.error ELSE "ended"]
                /\ onResponse' = FinallyHandler(ex, x, onResponse)
                /\ pending' = FinallyPending(ex, x, pending)
                /\ thrown' = NotRefused
           ELSE IF e.queue # <<>>
           THEN /\ ex' = [ex EXCEPT ![x].queue = Tail(@),
                                    ![x].out = Append(@, Head(e.queue))]
                /\ thrown' = NotRefused
                /\ UNCHANGED <<pending, onResponse>>
           ELSE /\ ex' = [ex EXCEPT ![x].resolver = TRUE, ![x].promise = "suspended"]
                /\ thrown' = NotRefused
                /\ UNCHANGED <<pending, onResponse>>
    /\ UNCHANGED <<state, socket, nextId, conn, wire, issued>>

\* The consumer of stream x stops at a yield (break in for await, or return()):
\* the generator runs its finally block.
Abandon(x) ==
    /\ ex[x].kind = "stream"
    /\ ex[x].promise = "yielded"
    /\ ex' = [ex EXCEPT ![x].promise = "returned"]
    /\ onResponse' = FinallyHandler(ex, x, onResponse)
    /\ pending' = FinallyPending(ex, x, pending)
    /\ thrown' = NotRefused
    /\ UNCHANGED <<state, socket, nextId, conn, wire, issued>>

\* ---------------------------------------------------------------- dispatch

\* Mutant: every response completes the request, terminal or not.
BaseOnResponseAnyCompletes(r, response) ==
    LET x == MapGet(r.pending, response.id)
    IN  IF x = 0 THEN r
        ELSE LET pushed == [r.ex EXCEPT ![x].responses = Append(@, response)]
             IN  [r EXCEPT
                     !.ex = IF pushed[x].kind = "send"
                            THEN SettleSend([pushed EXCEPT ![x].timer = clearTimeout(@)],
                                            x, "resolved")
                            ELSE pushed,
                     !.pending = MapDelete(r.pending, response.id)]

\* Mutant: a terminal response completes the request and leaves its timer armed.
BaseOnResponseKeepTimer(r, response) ==
    LET x == MapGet(r.pending, response.id)
    IN  IF x = 0 THEN r
        ELSE LET pushed == [r.ex EXCEPT ![x].responses = Append(@, response)]
             IN  IF ~isTerminal(response)
                 THEN [r EXCEPT !.ex = pushed]
                 ELSE [r EXCEPT
                         !.ex = IF pushed[x].kind = "send"
                                THEN SettleSend(pushed, x, "resolved")
                                ELSE pushed,
                         !.pending = MapDelete(r.pending, response.id)]

\* Transport.prototype.onResponse: the response goes to the entry under its id.
BaseOnResponse(r, response) ==
    LET x == MapGet(r.pending, response.id)
    IN  IF x = 0 THEN r
        ELSE LET pushed == [r.ex EXCEPT ![x].responses = Append(@, response)]
             IN  IF ~isTerminal(response)
                 THEN [r EXCEPT !.ex = pushed]
                 ELSE [r EXCEPT
                         !.ex = IF pushed[x].kind = "send"
                                THEN SettleSend([pushed EXCEPT ![x].timer = clearTimeout(@)],
                                                x, "resolved")
                                ELSE pushed,
                         !.pending = MapDelete(r.pending, response.id)]

\* Mutant: a response handed to the suspended consumer is queued as well.
StreamHandlerAlsoQueues(e, x, response) ==
    IF Finished(e[x]) THEN e
    ELSE IF e[x].resolver
    THEN [e EXCEPT ![x].done = @ \/ isTerminal(response),
                   ![x].resolver = FALSE,
                   ![x].promise = "yielded",
                   ![x].out = Append(@, response),
                   ![x].queue = Append(@, response)]
    ELSE [e EXCEPT ![x].done = @ \/ isTerminal(response),
                   ![x].queue = Append(@, response)]

\* handler(response) of stream x: a suspended consumer is handed the response and
\* yields it; otherwise the response is queued.  The closure of a finished
\* generator is no longer read by anything, so it is left as it is.
StreamHandler(e, x, response) ==
    IF Finished(e[x]) THEN e
    ELSE IF e[x].resolver
    THEN [e EXCEPT ![x].done = @ \/ isTerminal(response),
                   ![x].resolver = FALSE,
                   ![x].promise = "yielded",
                   ![x].out = Append(@, response)]
    ELSE [e EXCEPT ![x].done = @ \/ isTerminal(response),
                   ![x].queue = Append(@, response)]

\* this.onResponse(response) where this.onResponse is h: the wrapper of stream h
\* takes the responses of its id and passes the others to the function it found.
RECURSIVE Dispatch(_, _, _)
Dispatch(r, h, response) ==
    IF h = 0 THEN BaseOnResponse(r, response)
    ELSE IF response.id = r.ex[h].id
    THEN [r EXCEPT !.ex = StreamHandler(r.ex, h, response)]
    ELSE Dispatch(r, r.ex[h].orig, response)

\* The history of what the remote sent for the id of each exchange.
RECURSIVE RecordFrom(_, _, _)
RecordFrom(e, response, x) ==
    IF x = 0 THEN e
    ELSE RecordFrom(IF e[x].id = response.id
                    THEN [e EXCEPT ![x].got = Append(@, response)]
                    ELSE e,
                    response, x - 1)

Record(e, response) == RecordFrom(e, response, Len(e))

\* onData with a chunk of complete frames: each is dispatched in turn.
RECURSIVE Deliver(_, _)
Deliver(r, chunk) ==
    IF chunk = <<>> THEN r
    ELSE Deliver(Dispatch([r EXCEPT !.ex = Record(r.ex, Head(chunk))],
                          r.onResponse, Head(chunk)),
                 Tail(chunk))

\* The messages sent so far for the ids of exchanges.
Sent == LET RECURSIVE Sum(_)
            Sum(x) == IF x = 0 THEN 0 ELSE Len(ex[x].got) + Sum(x - 1)
        IN  Sum(Len(ex))

\* The messages the remote may send: for the id of an exchange, or for none.  data
\* is the text of the payload, empty where the model does not look at it.
Msgs(ops) ==
    {[id |-> id, op |-> op, code |-> RemoteCode(op), data |-> <<>>] :
        id \in {ex[x].id : x \in 1..Len(ex)} \cup {StrayId}, op \in ops}

\* The chunks onData may be handed: one frame, or as many complete frames as the
\* remote may still send.
Chunks(m, ops) ==
    UNION {[1..n -> Msgs(ops)] : n \in 1..(IF Sent < m THEN m - Sent ELSE 1)}

\* The messages of the chunk that are for the id of an exchange.
Counted(chunk) == Cardinality({i \in 1..Len(chunk) : chunk[i].id # StrayId})

\* The data callback of socket a.
OnData(a, chunk, m) ==
    /\ conn[a].sock \in {"open", "ending"}
    /\ Sent + Counted(chunk) <= m
    /\ LET r == Deliver([ex |-> ex, onResponse |-> onResponse, pending |-> pending], chunk)
       IN  /\ ex' = r.ex
           /\ pending' = r.pending
    /\ thrown' = NotRefused
    /\ UNCHANGED <<state, socket, nextId, onResponse, conn, wire, issued>>

\* ---------------------------------------------------------------- framing

\* The bytes a socket receives in the model of the framing.  "i" stands for the JSON
\* text of an item message for the first id, up to its payload; "L" and "C" are the
\* lead and the continuation byte of a two-byte UTF-8 character of the payload;
\* "sp" is a space and "nl" the newline.
Bytes == {"i", "L", "C", "sp", "nl"}

\* data.toString(): the UTF-8 decoding of one chunk on its own.  The two bytes of
\* the character decode to it ("E"); a lead byte without its continuation and a
\* continuation without its lead decode to the replacement character ("?").
RECURSIVE toString(_)
toString(data) ==
    IF data = <<>> THEN <<>>
    ELSE IF Head(data) = "L" /\ Len(data) > 1 /\ data[2] = "C"
    THEN <<"E">> \o toString(SubSeq(data, 3, Len(data)))
    ELSE IF Head(data) \in {"L", "C"}
    THEN <<"?">> \o toString(Tail(data))
    ELSE <<Head(data)>> \o toString(Tail(data))

\* buffer.indexOf(c): the place of the first c, 0 when there is none (the code's
\* places start at 0 and its "none" is -1).
indexOf(buffer, c) ==
    IF \E k \in 1..Len(buffer) : buffer[k] = c
    THEN CHOOSE k \in 1..Len(buffer) :
            buffer[k] = c /\ \A j \in 1..(k - 1) : buffer[j] # c
    ELSE 0

\* line.trim(): the line without the white space at its ends.
RECURSIVE trim(_)
trim(line) ==
    IF line = <<>> THEN <<>>
    ELSE IF Head(line) = "sp" THEN trim(Tail(line))
    ELSE IF line[Len(line)] = "sp" THEN trim(SubSeq(line, 1, Len(line) - 1))
    ELSE line

\* JSON.parse(line) succeeds: between white space, the line is the text of one
\* message, whose payload is any characters.
Parses(line) ==
    LET text == trim(line)
    IN  /\ text # <<>>
        /\ text[1] = "i"
        /\ \A k \in 2..Len(text) : text[k] \in {"E", "?"}

\* JSON.parse(line) of a line that parses: the message, with its payload.
JSONparse(line) ==
    [id |-> String(1), op |-> "item", code |-> "", data |-> Tail(trim(line))]

\* Mutant: the loop stops at a line that does not parse.
RECURSIVE LinesStopAtBadFrame(_, _)
LinesStopAtBadFrame(r, buffer) ==
    LET newlineIdx == indexOf(buffer, "nl")
    IN  IF newlineIdx = 0 THEN [r |-> r, buffer |-> buffer]
        ELSE LET line == SubSeq(buffer, 1, newlineIdx - 1)
                 rest == SubSeq(buffer, newlineIdx + 1, Len(buffer))
             IN  IF trim(line) # <<>> /\ ~Parses(line)
                 THEN [r |-> r, buffer |-> rest]
                 ELSE LinesStopAtBadFrame(IF trim(line) # <<>>
                                          THEN Deliver(r, <<JSONparse(line)>>)
                                          ELSE r,
                                          rest)

\* The while loop of onData: as long as the buffer holds a newline, the line before
\* it is cut off, and dispatched if it is not blank and parses.
RECURSIVE Lines(_, _)
Lines(r, buffer) ==
    LET newlineIdx == indexOf(buffer, "nl")
    IN  IF newlineIdx = 0 THEN [r |-> r, buffer |-> buffer]
        ELSE LET line == SubSeq(buffer, 1, newlineIdx - 1)
                 rest == SubSeq(buffer, newlineIdx + 1, Len(buffer))
             IN  Lines(IF trim(line) # <<>> /\ Parses(line)
                       THEN Deliver(r, <<JSONparse(line)>>)
                       ELSE r,
                       rest)

\* The chunks of bytes a socket that received n bytes may still be handed.
ByteChunks(n) == UNION {[1..k -> Bytes] : k \in 1..(MaxBytes - n)}

\* The data callback of socket a, handed the bytes of one chunk.
OnDataBytes(a, data) ==
    /\ conn[a].sock \in {"open", "ending"}
    /\ Len(conn[a].received) + Len(data) <= MaxBytes
    /\ LET l == Lines([ex |-> ex, onResponse |-> onResponse, pending |-> pending],
                      conn[a].buffer \o toString(data))
       IN  /\ ex' = l.r.ex
           /\ pending' = l.r.pending
           /\ conn' = [conn EXCEPT ![a].buffer = l.buffer,
                                   ![a].received = @ \o data]
    /\ thrown' = NotRefused
    /\ UNCHANGED <<state, socket, nextId, onResponse, wire, issued>>

\* ---------------------------------------------------------------- client

isError(response) == response.op = "error"
isOk(response) == response.op = "ok"
isItem(response) == response.op = "item"
isData(response) == response.op = "data"

\* What a call of the client gives its caller.
Thrown(name, code) == [kind |-> "thrown", name |-> name, code |-> code, from |-> 0]
Returned(i) == [kind |-> "returned", name |-> "", code |-> "", from |-> i]
Waiting == [kind |-> "waiting", name |-> "", code |-> "", from |-> 0]

\* The errors send rejects with: new TimeoutError(...), new ConnectionError(code, ...).
TransportError(outcome) ==
    IF outcome = "TimeoutError" THEN Thrown("TimeoutError", "")
    ELSE Thrown("ConnectionError", outcome)

\* SyscallError.fromResponse(response, name)
fromResponse(response) == Thrown("SyscallError", response.code)

\* Mutant: the call is decided by the last message of the reply.
callLastMessage(e) ==
    IF e.promise = "pending" THEN Waiting
    ELSE IF e.promise # "resolved" THEN TransportError(e.promise)
    ELSE IF Len(e.responses) = 0 THEN Thrown("SyscallError", "EIO")
    ELSE IF isError(e.responses[Len(e.responses)])
    THEN fromResponse(e.responses[Len(e.responses)])
    ELSE IF isOk(e.responses[Len(e.responses)]) \/ isItem(e.responses[Len(e.responses)])
    THEN Returned(Len(e.responses))
    ELSE Thrown("SyscallError", "EIO")

\* Mutant: the error reply is wrapped as an I/O failure, its code dropped.
callDropsCode(e) ==
    IF e.promise = "pending" THEN Waiting
    ELSE IF e.promise # "resolved" THEN TransportError(e.promise)
    ELSE IF Len(e.responses) = 0 THEN Thrown("SyscallError", "EIO")
    ELSE IF isError(e.responses[1]) THEN Thrown("SyscallError", "EIO")
    ELSE IF isOk(e.responses[1]) \/ isItem(e.responses[1]) THEN Returned(1)
    ELSE Thrown("SyscallError", "EIO")

\* OSClient.call after `await this.transport.send(...)` of exchange e: a rejection
\* of send passes through; a resolved list is decided by its first message.
call(e) ==
    IF e.promise = "pending" THEN Waiting
    ELSE IF e.promise # "resolved" THEN TransportError(e.promise)
    ELSE IF Len(e.responses) = 0 THEN Thrown("SyscallError", "EIO")
    ELSE IF isError(e.responses[1]) THEN fromResponse(e.responses[1])
    ELSE IF isOk(e.responses[1]) \/ isItem(e.responses[1]) THEN Returned(1)
    ELSE Thrown("SyscallError", "EIO")

\* The value `{}`.
EmptyObject == <<"{", "}">>

\* The value a call that returns gives its caller: `response.data ?? {}` of an ok
\* message, `response.data` of an item.  An empty data stands for no data field.
callValue(e) ==
    LET response == e.responses[1]
    IN  IF isOk(response) /\ response.data = <<>> THEN EmptyObject ELSE response.data

\* What exists gives its caller.
Answered(bool) == [kind |-> "returned", name |-> "", code |-> "", from |-> 0, value |-> bool]

\* OSClient.exists over the outcome r of its stat call: true when the call
\* returns, false when it throws a SyscallError with the code ENOENT, and the
\* error of the call in every other case.
exists(r) ==
    IF r.kind = "waiting" THEN Waiting
    ELSE IF r.kind = "returned" THEN Answered(TRUE)
    ELSE IF r.name = "SyscallError" /\ r.code = "ENOENT" THEN Answered(FALSE)
    ELSE r

\* What collect gives its caller: the items it gathered.
Collected(items) ==
    [kind |-> "returned", name |-> "", code |-> "", from |-> 0, items |-> items]

\* The messages iterate passes on as items: those tagged item or data.
Items(msgs) == SelectSeq(msgs, LAMBDA response : isItem(response) \/ isData(response))

\* OSClient.collect over OSClient.iterate, as the consumer of the stream of
\* exchange e: it throws at the first error message the stream yields, gathers the
\* items and the data, and returns them when the stream ends; what the stream
\* throws passes through.
collect(e) ==
    LET errors == {k \in 1..Len(e.out) : isError(e.out[k])}
    IN  IF errors # {}
        THEN fromResponse(e.out[CHOOSE k \in errors : \A j \in errors : k <= j])
        ELSE IF e.promise \in {"suspended", "yielded"} THEN Waiting
        ELSE IF e.promise \in {"ended", "returned"} THEN Collected(Items(e.out))
        ELSE IF e.promise = "WriteError" THEN Thrown("Error", "")
        ELSE TransportError(e.promise)

\* ---------------------------------------------------------------- specification

Next(m, ops) ==
    \/ (ConnectAllowed => Budget(MaxCalls)) /\ ConnectCall
    \/ \E a \in 1..Len(conn) : ConnectTimer(a)
    \/ \E a \in 1..Len(conn) : SocketOpen(a)
    \/ \E a \in 1..Len(conn) : SocketConnectError(a)
    \/ \E a \in 1..Len(conn) : SocketError(a)
    \/ Close
    \/ \E a \in 1..Len(conn) : OnClose(a)
    \/ Budget(MaxCalls) /\ \E writeOk \in BOOLEAN : Send(writeOk)
    \/ \E x \in 1..Len(ex) : SendTimer(x)
    \/ Budget(MaxCalls) /\ \E writeOk \in BOOLEAN : Stream(writeOk)
    \/ \E x \in 1..Len(ex) : Pull(x)
    \/ \E x \in 1..Len(ex) : Abandon(x)
    \/ \E a \in 1..Len(conn), chunk \in Chunks(m, ops) : OnData(a, chunk, m)

\* The Transport from its construction, under the bounds.
Spec == Init /\ [][Next(MaxMsgs, RemoteOps)]_vars

\* The same with room for one more message.
SpecWide == Init /\ [][Next(WideMsgs, RemoteOps)]_vars

\* The Transport under the replies to single-value calls.
SpecCall == Init /\ [][Next(MaxMsgs, ReplyOps)]_vars

\* A Transport whose first connect call has succeeded: the state after connect()
\* and the open callback of its socket.
InitConnected ==
    /\ state = "connected"
    /\ socket = 1
    /\ pending = <<>>
    /\ nextId = 1
    /\ onResponse = 0
    /\ conn = <<[NewAttempt EXCEPT !.sock = "open", !.timer = "cleared",
                                   !.promise = "resolved"]>>
    /\ ex = <<>>
    /\ wire = <<>>
    /\ issued = <<>>
    /\ thrown = NotRefused

\* Streams on that connection: their calls, pulls and early returns, the data of
\* the socket, and close().
NextStreams ==
    \/ Budget(DeepCalls) /\ \E writeOk \in BOOLEAN : Stream(writeOk)
    \/ \E x \in 1..Len(ex) : Pull(x)
    \/ \E x \in 1..Len(ex) : Abandon(x)
    \/ \E a \in 1..Len(conn), chunk \in Chunks(DeepMsgs, RemoteOps) : OnData(a, chunk, DeepMsgs)
    \/ Close

SpecStreams == InitConnected /\ [][NextStreams]_vars

\* A Transport that connected and sent its first request: the state after
\* connect(), the open callback and send().
InitFraming ==
    /\ state = "connected"
    /\ socket = 1
    /\ pending = MapSet(<<>>, String(1), 1)
    /\ nextId = 2
    /\ onResponse = 0
    /\ conn = <<[NewAttempt EXCEPT !.sock = "open", !.timer = "cleared",
                                   !.promise = "resolved"]>>
    /\ ex = <<NewSend(String(1))>>
    /\ wire = <<[sock |-> 1, id |-> String(1), part |-> "json"],
                [sock |-> 1, id |-> String(1), part |-> "newline"]>>
    /\ issued = <<String(1)>>
    /\ thrown = NotRefused

\* The bytes of the reply arrive, in chunks of any sizes.
NextFraming ==
    \E a \in 1..Len(conn) :
        \E data \in ByteChunks(Len(conn[a].received)) : OnDataBytes(a, data)

SpecFraming == InitFraming /\ [][NextFraming]_vars

\* Sends and streams on an open connection whose remote uses every tag, one
\* message to a chunk.
NextTags ==
    \/ Budget(TagCalls) /\ \E writeOk \in BOOLEAN : Send(writeOk)
    \/ Budget(TagCalls) /\ \E writeOk \in BOOLEAN : Stream(writeOk)
    \/ \E x \in 1..Len(ex) : Pull(x)
    \/ \E a \in 1..Len(conn), msg \in Msgs(ResponseOps) : OnData(a, <<msg>>, TagMsgs)

SpecTags == InitConnected /\ [][NextTags]_vars

\* The Transport under the assumption that an armed timer of a send fires unless
\* it is cancelled: the runtime runs the callback of setTimeout once its delay has
\* passed.
SpecTimers ==
    Spec /\ \A x \in 1..MaxCalls : WF_vars(x \in 1..Len(ex) /\ SendTimer(x))

\* The chunks of at most n bytes.
ChunksUpTo(n) == UNION {[1..k -> Bytes] : k \in 1..n}

\* The bytes all sockets have received.
Received ==
    LET RECURSIVE Sum(_)
        Sum(a) == IF a = 0 THEN 0 ELSE Len(conn[a].received) + Sum(a - 1)
    IN  Sum(Len(conn))

\* Connections made and closed one after the other, a send, and the bytes the
\* sockets receive.
NextReconnect ==
    \/ (ConnectAllowed => Budget(ReCalls)) /\ ConnectCall
    \/ \E a \in 1..Len(conn) : SocketOpen(a)
    \/ Budget(ReCalls) /\ \E writeOk \in BOOLEAN : Send(writeOk)
    \/ Close
    \/ \E a \in 1..Len(conn) : OnClose(a)
    \/ \E a \in 1..Len(conn) :
          \E data \in ChunksUpTo(ReBytes - Received) : OnDataBytes(a, data)

SpecReconnect == Init /\ [][NextReconnect]_vars

\* The tags, error codes and payloads of the replies to the calls of the client.
CallOps == {"ok", "error", "item", "progress"}
Codes == {"ENOENT", "EACCES"}
Payloads == {<<>>, <<"E">>}

\* The messages of those replies: an error carries a code and no data.
Replies ==
    {m \in [id : {ex[x].id : x \in 1..Len(ex)} \cup {StrayId}, op : CallOps,
            code : Codes \cup {""}, data : Payloads] :
        IF m.op = "error" THEN m.code # "" /\ m.data = <<>> ELSE m.code = ""}

\* The calls of the client on an open connection: sends, their timers, the
\* replies one message to a chunk, and close().
NextClient ==
    \/ Budget(CliCalls) /\ \E writeOk \in BOOLEAN : Send(writeOk)
    \/ \E x \in 1..Len(ex) : SendTimer(x)
    \/ Close
    \/ \E a \in 1..Len(conn), msg \in Replies : OnData(a, <<msg>>, CliMsgs)

SpecClient == InitConnected /\ [][NextClient]_vars

\* The ids a caller of Transport.send chooses.
CallerIds == {"1", "2"}

\* Sends with caller-chosen ids on an open connection, their timers, the replies
\* and close().
NextCallerIds ==
    \/ Len(ex) < DupCalls /\ \E id \in CallerIds, writeOk \in BOOLEAN : TransportSend(id, writeOk)
    \/ \E x \in 1..Len(ex) : SendTimer(x)
    \/ \E a \in 1..Len(conn), msg \in Msgs(RemoteOps) : OnData(a, <<msg>>, MaxMsgs)
    \/ Close

SpecCallerIds == InitConnected /\ [][NextCallerIds]_vars

\* ---------------------------------------------------------------- claims

Attempts == 1..Len(conn)
Exchanges == 1..Len(ex)
Sends == {x \in Exchanges : ex[x].kind = "send"}
Streams == {x \in Exchanges : ex[x].kind = "stream"}

\* A task that runs the teardown: close(), or the close callback of a socket.
Teardown == Close \/ \E a \in Attempts : OnClose(a)

\* C1: connect called while the state is connecting or connected rejects with
\* EISCONN, leaves the state, the stored socket and the routing table unchanged
\* and starts no connection attempt.
C1_ConnectRefused ==
    [][(ConnectCall /\ state \in {"connecting", "connected"}) =>
          /\ thrown' = Refused("connect", "EISCONN")
          /\ UNCHANGED <<state, socket, pending, conn, ex, onResponse>>]_vars

C1_Witness ==
    /\ thrown = Refused("connect", "EISCONN")
    /\ state = "connecting"
    /\ Len(conn) = 1

\* C2: at most one connect call is unsettled at any time: no connect call is
\* accepted while an earlier one has not settled.
C2_OneConnectPending ==
    Cardinality({a \in Attempts : conn[a].promise = "pending"}) <= 1

\* C3: once the timer of a connect call has expired, the events of its attempt
\* (open, close, data) change neither the state, nor the stored socket, nor the
\* routing table.
C3_TimedOutAttemptDiscarded ==
    [][\A a \in Attempts :
          (/\ conn[a].promise = "TimeoutError"
           /\ \/ SocketOpen(a)
              \/ OnClose(a)
              \/ \E chunk \in Chunks(MaxMsgs, RemoteOps) : OnData(a, chunk, MaxMsgs))
          => UNCHANGED <<state, socket, pending>>]_vars

\* C4: a connect call whose attempt fails at stream level rejects with
\* ECONNREFUSED, one whose timer expires first rejects with a TimeoutError; the
\* state is disconnected when the rejection is delivered, so that a later connect
\* call passes the state check.
C4_ConnectFailure ==
    [][\A a \in Attempts :
          conn[a].promise = "pending" =>
             /\ ConnectTimer(a) =>
                   (conn'[a].promise = "TimeoutError" /\ state' = "disconnected")
             /\ SocketConnectError(a) =>
                   (conn'[a].promise = "ECONNREFUSED" /\ state' = "disconnected")
             /\ conn'[a].promise \notin {"pending", "resolved"} =>
                   (state' = "disconnected" /\ ConnectAllowed')]_vars

C4_Witness ==
    /\ Len(conn) = 2
    /\ conn[1].promise = "ECONNREFUSED"
    /\ conn[2].promise = "pending"
    /\ state = "connecting"

\* C5: close() called in state disconnected changes nothing, and a second close()
\* right after a first finds nothing to change (no stored socket, state
\* disconnected, empty routing table).
C5_CloseIdempotent ==
    [][Close =>
          /\ state = "disconnected" =>
                UNCHANGED <<state, socket, pending, conn, ex, onResponse>>
          /\ socket' = 0 /\ state' = "disconnected" /\ pending' = <<>>]_vars

\* An exchange the teardown has reached: its future was rejected with ECONNRESET,
\* or its stream was handed that error.
Reset(e) == e.promise = "ECONNRESET" \/ e.error = "ECONNRESET"

\* C6: close() and onClose() complete every waiter of the routing table with
\* ECONNRESET (a send's future is rejected and its timer cancelled; a stream is
\* handed the error, and its consumer, if suspended, is resumed and fails), leave
\* the routing table empty, the socket unset and the state disconnected; and a
\* message that arrives later for the id of such an exchange reaches no caller.
C6_Teardown ==
    [][/\ Teardown =>
            /\ pending' = <<>> /\ state' = "disconnected" /\ socket' = 0
            /\ \A i \in 1..Len(pending) :
                  LET x == pending[i].x
                  IN  /\ ex[x].kind = "send" =>
                            /\ ex'[x].promise = "ECONNRESET"
                            /\ ex'[x].timer = "cleared"
                      /\ ex[x].kind = "stream" =>
                            /\ ex'[x].error = "ECONNRESET"
                            /\ ex[x].promise = "suspended" =>
                                  ex'[x].promise = "ECONNRESET"
       /\ \A x \in Exchanges :
            (Reset(ex[x]) /\ ex'[x].got # ex[x].got) =>
                /\ ex'[x].promise = ex[x].promise
                /\ ex'[x].out = ex[x].out
                /\ ex'[x].settles = ex[x].settles
                /\ ~MapHas(pending', ex[x].id)]_vars

C6_Witness ==
    /\ state = "disconnected" /\ pending = <<>>
    /\ \E x \in Sends :
          /\ ex[x].promise = "ECONNRESET" /\ ex[x].timer = "cleared"
          /\ ex[x].got # <<>> /\ ex[x].responses = <<>>
    /\ \E x \in Streams : ex[x].promise = "ECONNRESET"

\* C7: the future of a send is settled at most once: its resolve and reject are
\* called once in all, whatever the order of dispatch, timer, teardown and write
\* failure.
C7_SettledOnce ==
    \A x \in Sends :
        /\ ex[x].settles <= 1
        /\ ex[x].settles = 1 <=> ex[x].promise # "pending"

C7_Witness ==
    \E x \in Sends :
        /\ ex[x].promise = "TimeoutError" /\ ex[x].settles = 1
        /\ ex[x].got # <<>>
        /\ \E a \in Attempts : conn[a].sock = "closed"

\* C8: a teardown leaves no waiter without a result: after it no send future is
\* pending, no stream consumer is suspended in a pull, and a consumer that pulls
\* afterwards gets a result (the stream has its error, or its terminal message).
C8_NoWaiterLeft ==
    [][Teardown =>
          /\ \A x \in Sends : ex'[x].promise # "pending"
          /\ \A x \in Streams :
                /\ ex'[x].promise # "suspended"
                /\ ex'[x].promise = "yielded" =>
                      (ex'[x].error # "none" \/ ex'[x].done)]_vars

\* The decimal string of n, digit by digit.
Digit == <<"0", "1", "2", "3", "4", "5", "6", "7", "8", "9">>
RECURSIVE Decimal(_)
Decimal(n) == IF n < 10 THEN Digit[n + 1] ELSE Decimal(n \div 10) \o Digit[(n % 10) + 1]

\* The number a decimal string of the model stands for.
Number(str) == CHOOSE n \in 0..(MaxCalls + 1) : Decimal(n) = str

\* C9: generateId returns "1", "2", "3", ...: every id is greater, as a number,
\* than those returned before, none is returned twice, and the counter is one
\* past the ids returned, whatever closes, failed connects and reconnects have
\* happened.
C9_Ids ==
    /\ \A i \in 1..Len(issued) : issued[i] = Decimal(i)
    /\ \A i, j \in 1..Len(issued) : i < j => Number(issued[i]) < Number(issued[j])
    /\ nextId = Len(issued) + 1

C9_Witness ==
    /\ issued = <<"1", "2">>
    /\ Len(ex) = 1 /\ ex[1].promise = "ECONNRESET"
    /\ Len(conn) = 1 /\ conn[1].sock = "closed"

\* C10: send, and the first pull of stream, called while the state is not
\* connected fail with ENOTCONN and register no waiter, arm no timer, write no
\* frame and leave the connection state as it is.
C10_NotConnected ==
    [][(state # "connected" /\ \E writeOk \in BOOLEAN : Send(writeOk) \/ Stream(writeOk)) =>
          /\ thrown'.err = "ENOTCONN"
          /\ UNCHANGED <<state, socket, pending, ex, wire, conn, onResponse>>]_vars

C10_Witness ==
    /\ thrown = Refused("stream", "ENOTCONN")
    /\ state = "connecting"
    /\ ex = <<>> /\ wire = <<>>

C12_SendTimeout ==
    [][\A x \in Sends :
          /\ SendTimer(x) =>
                /\ ex[x].promise = "pending"
                /\ ex'[x].promise = "TimeoutError"
                /\ ~MapHas(pending', ex[x].id)
          /\ ex[x].promise = "TimeoutError" =>
                /\ ex'[x] = [ex[x] EXCEPT !.got = ex'[x].got]
                /\ ~MapHas(pending', ex[x].id)]_vars

C12_Witness ==
    \E x \in Sends :
        /\ ex[x].promise = "TimeoutError"
        /\ ex[x].got # <<>> /\ isTerminal(ex[x].got[1])
        /\ ex[x].responses = <<>>
        /\ state = "connected"

\* C13: the expiry of the timer of one send changes that exchange only: the
\* entries of the other waiters stay in the routing table in their order, their
\* closures (accumulated messages, timers, futures, queues) are unchanged, and so
\* are the connection state, the stored socket and the dispatch function.
C13_TimeoutFrame ==
    [][\A x \in Sends :
          SendTimer(x) =>
             /\ pending' = SelectSeq(pending, LAMBDA entry : entry.x # x)
             /\ \A y \in Exchanges \ {x} : ex'[y] = ex[y]
             /\ Len(ex') = Len(ex)
             /\ UNCHANGED <<state, socket, onResponse, conn>>]_vars

C13_Witness ==
    /\ Len(ex) = 2
    /\ ex[1].kind = "send" /\ ex[1].promise = "TimeoutError"
    /\ ex[2].kind = "send" /\ ex[2].promise = "pending" /\ ex[2].timer = "armed"
    /\ pending = <<[id |-> ex[2].id, x |-> 2]>>
    /\ state = "connected"

\* C14: when the write of the frame fails inside send, the future is rejected
\* with EIO, the entry registered for the request is removed at once and its timer
\* cancelled, so that no timer fires for it later and nothing settles it again;
\* the other waiters, the connection state and the socket are unchanged.
C14_WriteFailure ==
    [][/\ (Connected /\ Send(FALSE)) =>
            /\ Len(ex') = Len(ex) + 1
            /\ ex'[Len(ex')].promise = "EIO"
            /\ ex'[Len(ex')].timer = "cleared"
            /\ ex'[Len(ex')].settles = 1
            /\ \A y \in Exchanges : ex'[y] = ex[y]
            /\ UNCHANGED <<pending, state, socket, onResponse, conn, wire>>
       /\ \A x \in Sends :
            ex[x].promise = "EIO" =>
                /\ ~SendTimer(x)
                /\ ex'[x] = [ex[x] EXCEPT !.got = ex'[x].got]
                /\ ~MapHas(pending', ex[x].id)]_vars

C14_Witness ==
    /\ Len(ex) = 2
    /\ ex[1].kind = "send" /\ ex[1].promise = "pending"
    /\ ex[2].kind = "send" /\ ex[2].promise = "EIO" /\ ex[2].got # <<>>
    /\ pending = <<[id |-> ex[1].id, x |-> 1]>>

\* The last message send x has accumulated is error-tagged: the remote answered
\* the request with an error.
AnsweredWithError(x) ==
    /\ ex[x].responses # <<>>
    /\ isError(ex[x].responses[Len(ex[x].responses)])

\* C15 as stated: when the remote answers a send with an error-tagged message,
\* the future of the send is rejected (with a protocol error).
C15_SendRejects ==
    \A x \in Sends :
        AnsweredWithError(x) => ex[x].promise \notin {"pending", "resolved"}

\* C15 as amended: when the remote answers a send with an error-tagged message,
\* the future of the send resolves, with the list that ends in that message and
\* so carries the remote code; OSClient.call on top of it rejects with a
\* SyscallError of that code when the error is the first message of the reply,
\* and with the ConnectionError or TimeoutError of the transport, never a
\* SyscallError, when the send itself is rejected.
C15_ErrorReply ==
    \A x \in Sends :
        /\ AnsweredWithError(x) =>
              /\ ex[x].promise = "resolved"
              /\ ex[x].responses[Len(ex[x].responses)].code = "ENOENT"
        /\ (AnsweredWithError(x) /\ Len(ex[x].responses) = 1) =>
              call(ex[x]) = Thrown("SyscallError", "ENOENT")
        /\ ex[x].promise \notin {"pending", "resolved"} =>
              call(ex[x]).name \in {"ConnectionError", "TimeoutError"}

C15_Witness ==
    \E x \in Sends :
        /\ ex[x].promise = "resolved"
        /\ ex[x].responses = <<[id |-> ex[x].id, op |-> "error", code |-> "ENOENT", data |-> <<>>]>>
        /\ call(ex[x]).name = "SyscallError"

\* The messages sent for the id of exchange e up to and including the first
\* terminal one (all of them when none is terminal).
UpToTerminal(msgs) ==
    LET terminals == {i \in 1..Len(msgs) : isTerminal(msgs[i])}
    IN  IF terminals = {} THEN msgs
        ELSE SubSeq(msgs, 1, CHOOSE n \in terminals : \A i \in terminals : n <= i)

\* C16: a stream that has ended without error has yielded every message
\* dispatched for its id up to and including the first terminal one, in that
\* order, whatever the timing of the arrivals relative to the pulls (three items
\* and a done give those four messages).
C16_StreamYieldsAll ==
    \A x \in Streams :
        ex[x].promise = "ended" =>
            /\ \E i \in 1..Len(ex[x].got) : isTerminal(ex[x].got[i])
            /\ ex[x].out = UpToTerminal(ex[x].got)

\* C17: at every moment what a stream has yielded is a prefix of what was
\* dispatched for its id: nothing reordered, nothing twice, nothing of another id.
C17_StreamOrder ==
    \A x \in Streams :
        /\ Len(ex[x].out) <= Len(ex[x].got)
        /\ ex[x].out = SubSeq(ex[x].got, 1, Len(ex[x].out))
        /\ \A i \in 1..Len(ex[x].out) : ex[x].out[i].id = ex[x].id

C17_Witness ==
    \E x \in Streams :
        /\ ex[x].out = <<[id |-> ex[x].id, op |-> "item", code |-> "", data |-> <<>>]>>
        /\ ex[x].promise = "suspended"

\* No terminal message has been dispatched for the id of stream x.
NoTerminalYet(x) == \A i \in 1..Len(ex[x].got) : ~isTerminal(ex[x].got[i])

\* C18: a teardown that comes before any terminal message for the id of a running
\* stream gives the stream the error ECONNRESET: a suspended consumer fails with
\* it at once, a consumer between pulls fails with it at its next pull; and a
\* stream ends without error only after it has yielded a terminal message.
C18_StreamReset ==
    [][\A x \in Streams :
          /\ (Teardown /\ ~Finished(ex[x]) /\ NoTerminalYet(x)) =>
                /\ ex'[x].error = "ECONNRESET"
                /\ ex[x].promise = "suspended" => ex'[x].promise = "ECONNRESET"
          /\ (Pull(x) /\ ex[x].error # "none") => ex'[x].promise = ex[x].error
          /\ ex'[x].promise = "ended" =>
                /\ ex'[x].out # <<>>
                /\ isTerminal(ex'[x].out[Len(ex'[x].out)])]_vars

\* The streams whose wrapper a dispatch through h passes.
RECURSIVE Chain(_)
Chain(h) == IF h = 0 THEN {} ELSE {h} \cup Chain(ex[h].orig)

\* C19: once the generator of a stream has finished (after its terminal message,
\* on an error, or by an early return of the consumer), the routing table holds no
\* entry for its id and its wrapper is not among the dispatch handlers installed.
C19_StreamReleased ==
    \A x \in Streams :
        Finished(ex[x]) =>
            /\ ~MapHas(pending, ex[x].id)
            /\ x \notin Chain(onResponse)

\* C20: exchanges with distinct ids do not interfere: a caller that is waiting has
\* received every message dispatched for its own id so far, whatever the other
\* exchanges did meanwhile (started, completed, timed out, were abandoned): a
\* pending send has accumulated them all, a suspended stream has yielded them all,
\* and none of them is terminal.
C20_NoInterference ==
    /\ \A x \in Sends :
          ex[x].promise = "pending" =>
              /\ ex[x].responses = ex[x].got
              /\ \A i \in 1..Len(ex[x].got) : ~isTerminal(ex[x].got[i])
    /\ \A x \in Streams :
          ex[x].promise = "suspended" =>
              /\ ex[x].out = ex[x].got
              /\ NoTerminalYet(x)

\* The data callback of some socket is handed the single frame of msg.
Arrives(msg) == \E a \in Attempts : OnData(a, <<msg>>, DeepMsgs)

\* C21: the dispatch of a message whose id has no entry in the routing table
\* changes nothing: the routing table, the dispatch function, the connection
\* state and the socket stay as they are, no future is settled, no consumer is
\* resumed, and no closure of an exchange changes.
C21_StrayDropped ==
    [][\A msg \in Msgs(RemoteOps) :
          (Arrives(msg) /\ ~MapHas(pending, msg.id)) =>
              /\ UNCHANGED <<pending, onResponse, state, socket, conn>>
              /\ \A y \in Exchanges :
                    /\ ex'[y].promise = ex[y].promise
                    /\ ex'[y].settles = ex[y].settles
                    /\ ex'[y].out = ex[y].out
                    /\ ex'[y].responses = ex[y].responses
                    /\ ex'[y].timer = ex[y].timer]_vars

\* ---------------------------------------------------------------- framing claims

\* The complete lines of a text, in order: what stands before each newline.  What
\* follows the last newline is no line yet.
RECURSIVE Split(_, _)
Split(text, line) ==
    IF text = <<>> THEN <<>>
    ELSE IF Head(text) = "nl" THEN <<line>> \o Split(Tail(text), <<>>)
    ELSE Split(Tail(text), Append(line, Head(text)))

\* The messages of the lines that parse, in order.
RECURSIVE Parsed(_)
Parsed(lines) ==
    IF lines = <<>> THEN <<>>
    ELSE IF Parses(Head(lines)) THEN <<JSONparse(Head(lines))>> \o Parsed(Tail(lines))
    ELSE Parsed(Tail(lines))

\* The messages a text holds: those of its complete lines that parse.
Frames(text) == Parsed(Split(text, <<>>))

\* What follows the last newline of a sequence of bytes.
RECURSIVE AfterLastNewline(_)
AfterLastNewline(bytes) ==
    IF bytes = <<>> \/ bytes[Len(bytes)] = "nl" THEN <<>>
    ELSE Append(AfterLastNewline(SubSeq(bytes, 1, Len(bytes) - 1)), bytes[Len(bytes)])

\* C22: however the byte stream of a socket is cut into chunks, the messages
\* dispatched are the frames of the whole stream that parse, in their order.
C22_ChunkingIndependent ==
    \A a \in Attempts :
        ex[1].responses = Frames(toString(conn[a].received))

\* C23: a frame that is empty, blank or does not parse is dropped without effect,
\* and the frames after it are still parsed and dispatched: a call of the data
\* callback adds to the waiter the messages of the lines that parse, in order, and
\* changes nothing else.
C23_BadFrameDropped ==
    [][\A a \in Attempts :
          conn'[a].received # conn[a].received =>
              LET data == SubSeq(conn'[a].received, Len(conn[a].received) + 1,
                                 Len(conn'[a].received))
                  msgs == Frames(conn[a].buffer \o toString(data))
              IN  /\ ex' = [ex EXCEPT ![1].responses = @ \o msgs, ![1].got = @ \o msgs]
                  /\ UNCHANGED <<pending, onResponse, state, socket>>]_vars

\* A frame that does not parse was followed by one that does, which was dispatched.
C23_Witness ==
    \E a \in Attempts :
        LET lines == Split(toString(conn[a].received), <<>>)
        IN  /\ Len(lines) = 2
            /\ ~Parses(lines[1])
            /\ Parses(lines[2])
            /\ ex[1].responses = <<JSONparse(lines[2])>>

\* C28: after every call of the data callback, the buffer of the socket holds no
\* newline and is the bytes the socket received after the last newline.
C28_BufferIsTail ==
    \A a \in Attempts :
        /\ indexOf(conn[a].buffer, "nl") = 0
        /\ conn[a].buffer = toString(AfterLastNewline(conn[a].received))

\* ---------------------------------------------------------------- writes

\* What was written to socket a, in order.
Written(a) == SelectSeq(wire, LAMBDA w : w.sock = a)

\* C24: the frames of concurrent send and stream calls are never interleaved: what
\* was written to a socket is a sequence of complete frames, each the text of one
\* request followed by exactly one newline, one frame for each request written.
C24_WholeFrames ==
    \A a \in Attempts :
        LET w == Written(a)
        IN  /\ Len(w) % 2 = 0
            /\ \A k \in 1..Len(w) :
                  /\ w[k].part = (IF k % 2 = 1 THEN "json" ELSE "newline")
                  /\ k % 2 = 0 => w[k].id = w[k - 1].id
                  /\ w[k].id \in {issued[i] : i \in 1..Len(issued)}
            /\ \A j, k \in 1..Len(w) : (w[j].id = w[k].id /\ j < k) => k = j + 1

\* A send and a stream that are both under way have written their frames.
C24_Witness ==
    \E x \in Sends, y \in Streams :
        /\ ex[x].promise = "pending"
        /\ ex[y].promise = "suspended"
        /\ Len(Written(socket)) = 4

\* ---------------------------------------------------------------- client claims

\* Every message the remote sent for the id of an exchange.
Got == UNION {{ex[x].got[i] : i \in 1..Len(ex[x].got)} : x \in Exchanges}

\* C25: isTerminal is true of the tags ok, error, done and redirect and false of
\* item, data, event and progress; isError, isOk, isItem and isData are each true
\* of their own tag and of no other.
C25_Guards ==
    \A response \in Got :
        /\ response.op \in {"ok", "error", "done", "redirect"} => isTerminal(response)
        /\ response.op \in {"item", "data", "event", "progress"} => ~isTerminal(response)
        /\ isError(response) <=> response.op = "error"
        /\ isOk(response) <=> response.op = "ok"
        /\ isItem(response) <=> response.op = "item"
        /\ isData(response) <=> response.op = "data"

\* A send took a progress message and stayed pending, then a redirect, which
\* completed it.
C25_Witness ==
    \E x \in Sends :
        /\ Len(ex[x].got) = 2
        /\ ex[x].got[1].op = "progress"
        /\ ex[x].got[2].op = "redirect"
        /\ ex[x].promise = "resolved"
        /\ ex[x].responses = ex[x].got

\* C26: a call whose reply holds an error message rejects with a SyscallError
\* that carries the code of that message, and returns no value.
C26_CallRejects ==
    \A x \in Sends :
        LET errors == {i \in 1..Len(ex[x].responses) : isError(ex[x].responses[i])}
        IN  (ex[x].promise = "resolved" /\ errors # {}) =>
                \E i \in errors : call(ex[x]) = fromResponse(ex[x].responses[i])

\* C27: collect returns the payloads of the items sent before the terminal message,
\* in the order of their arrival, whatever the timing of arrivals and pulls; when
\* the terminal message is an error it rejects with the SyscallError of it.
C27_CollectItems ==
    \A x \in Streams :
        LET r == collect(ex[x])
            sent == UpToTerminal(ex[x].got)
        IN  (ex[x].promise = "ended" \/ (r.kind = "thrown" /\ r.name = "SyscallError")) =>
                /\ sent # <<>>
                /\ isTerminal(sent[Len(sent)])
                /\ r = IF isError(sent[Len(sent)])
                       THEN fromResponse(sent[Len(sent)])
                       ELSE Collected(Items(sent))

\* C29: a stream has no timer, and a stream that waits for a message stays
\* suspended until a message for its id arrives or the connection is torn down.
C29_StreamNoTimer ==
    [][\A x \in Streams :
          /\ ex[x].timer = "none"
          /\ ex'[x].timer = "none"
          /\ (ex[x].promise = "suspended" /\ ex'[x].promise # "suspended") =>
                \/ Len(ex'[x].got) > Len(ex[x].got)
                \/ Teardown]_vars

\* A stream is still suspended after the timer of a later send has fired.
C29_Witness ==
    \E x \in Streams, y \in Sends :
        /\ x < y
        /\ ex[x].promise = "suspended"
        /\ ex[x].got = <<>>
        /\ ex[y].promise = "TimeoutError"

\* C30: every send that was accepted settles in the end, provided that timers fire.
C30_SendSettles ==
    \A x \in 1..MaxCalls :
        (x \in Sends /\ ex[x].promise = "pending")
            ~> (x \in Sends /\ ex[x].promise # "pending")

\* A send is pending with its timer armed.
C30_Witness ==
    \E x \in Sends :
        /\ ex[x].promise = "pending"
        /\ ex[x].timer = "armed"
        /\ MapGet(pending, ex[x].id) = x

\* ---------------------------------------------------------------- state claims

\* C31: whenever the connection state is not connected, the routing table is
\* empty: no waiter of a send or a stream is registered while the state is
\* disconnected or connecting.
C31_NoWaiterUnlessConnected ==
    state # "connected" => pending = <<>>

\* C32: the connection state changes only from disconnected to connecting, from
\* connecting to connected, from connecting to disconnected and from connected to
\* disconnected; after close() the state stays disconnected until the next connect
\* call, whatever an attempt that was in flight does afterwards.
C32_Transitions ==
    [][state' # state =>
          /\ <<state, state'>> \in {<<"disconnected", "connecting">>,
                                    <<"connecting", "connected">>,
                                    <<"connecting", "disconnected">>,
                                    <<"connected", "disconnected">>}
          /\ state = "disconnected" => ConnectCall]_vars

\* C33: the events of a socket that is not the socket of the current connection
\* leave the current connection alone: its close event does not set the state to
\* disconnected and rejects no waiter, its open event does not replace the stored
\* socket.
C33_StaleSocketIgnored ==
    [][\A a \in Attempts :
          (state = "connected" /\ socket # 0 /\ socket # a) =>
              /\ OnClose(a) => UNCHANGED <<state, socket, pending, ex>>
              /\ SocketOpen(a) => UNCHANGED <<state, socket>>]_vars

\* C34: timers and the waiters of sends stay in step: the timer of a send is armed
\* exactly while its waiter is in the routing table under its id, so that no timer
\* is left to fire for a send that has resolved, was reset or failed on its write.
C34_TimerIffWaiter ==
    \A x \in Sends :
        /\ ex[x].timer = "armed" <=> MapGet(pending, ex[x].id) = x
        /\ ex[x].promise # "pending" => ex[x].timer # "armed"

\* One send has resolved and one was reset, their timers cancelled.
C34_Witness ==
    \E x, y \in Sends :
        /\ ex[x].promise = "resolved" /\ ex[x].timer = "cleared"
        /\ ex[y].promise = "ECONNRESET" /\ ex[y].timer = "cleared"
        /\ pending = <<>>

\* C35: each connection starts with an empty buffer: the first data of a socket is
\* cut into frames on its own; what an earlier connection left unterminated is
\* neither put before it nor dispatched with it.
C35_FreshBuffer ==
    [][\A a \in Attempts :
          (conn[a].received = <<>> /\ conn'[a].received # <<>>) =>
              LET text == toString(conn'[a].received)
                  msgs == Frames(text)
              IN  /\ conn'[a].buffer = toString(AfterLastNewline(conn'[a].received))
                  /\ \A x \in Exchanges :
                        ex'[x].got = IF ex[x].id = String(1)
                                     THEN ex[x].got \o msgs ELSE ex[x].got]_vars

\* A connection was closed with an unterminated frame in its buffer, and a later
\* connection has received data.
C35_Witness ==
    \E a, b \in Attempts :
        /\ a < b
        /\ conn[a].sock \in {"ending", "closed"}
        /\ conn[a].buffer # <<>>
        /\ conn[b].received # <<>>

C37_Exists ==
    \A x \in Sends :
        LET r == call(ex[x])
            last == ex[x].responses[Len(ex[x].responses)]
        IN  /\ (ex[x].promise = "resolved" /\ isOk(last)) => exists(r) = Answered(TRUE)
            /\ exists(r) = Answered(FALSE) <=> r = Thrown("SyscallError", "ENOENT")
            /\ (r.kind = "thrown" /\ r # Thrown("SyscallError", "ENOENT")) => exists(r) = r

\* C38: the routing table holds at most one waiter for an id, and when a send is
\* registered under an id that has a pending waiter, the expiry of the earlier
\* request's timer does not remove the waiter of the later request.
C38_OneWaiterPerId ==
    [][/\ \A i, j \in 1..Len(pending) : pending[i].id = pending[j].id => i = j
       /\ \A x, y \in Sends :
             (/\ x < y
              /\ ex[x].id = ex[y].id
              /\ MapGet(pending, ex[y].id) = y
              /\ SendTimer(x))
             => MapGet(pending', ex[y].id) = y]_vars

====
